---- MODULE Spec2Model ----
(***************************************************************************)
(* A model of the Telegram post parser service: the URL parser and the     *)
(* session manager of app/telegram_client.py, the IP allowlist of          *)
(* app/middleware.py and the /parse/telegram/single handler of app/main.py.*)
(*                                                                         *)
(* Python strings are sequences of one-character strings, so that the      *)
(* regular expression of parse_post_url, the f-strings that build the      *)
(* error messages and the substring tests of the handler are computed as   *)
(* the code computes them.  An Optional value is <<>> (None) or <<v>>.     *)
(***************************************************************************)
EXTENDS Naturals, Sequences, FiniteSets

VARIABLES
    url_in,       \* parse_post_url: the argument
    url_out,      \* parse_post_url: what the call produced (<<>> before the call)
    client,       \* TelegramParserClient._client: <<>> or <<the TelegramClient>>
    connected,    \* what _client.is_connected() answers
    ops,          \* session manager: the calls made so far, with their effects
    allowed_ips,  \* main.allowed_ips, the list handed to IPAllowlistMiddleware
    phase,        \* lifespan: "down" before startup, "up" while serving, "stopped"
    pc,           \* where the request in flight is
    req,          \* the request in flight: caller address and url
    loc,          \* the local variables of parse_post
    resp,         \* the HTTP response of the request (<<>> while in flight)
    calls,        \* the SDK calls issued on the session for the request, in order
    hist          \* what the remote layer did to the request

vars == <<url_in, url_out, client, connected, ops, allowed_ips, phase, pc, req, loc,
          resp, calls, hist>>

None == <<>>
Some(v) == <<v>>

(***************************************************************************)
(* Strings                                                                 *)
(***************************************************************************)
UpperCase ==
    <<"A","B","C","D","E","F","G","H","I","J","K","L","M","N","O","P","Q","R","S","T",
      "U","V","W","X","Y","Z">>
LowerCase ==
    <<"a","b","c","d","e","f","g","h","i","j","k","l","m","n","o","p","q","r","s","t",
      "u","v","w","x","y","z">>
Digits == <<"0","1","2","3","4","5","6","7","8","9">>

Range(s) == {s[i] : i \in 1..Len(s)}

\* str.lower(), character by character
LowerChar(c) ==
    IF c \in Range(UpperCase)
    THEN LowerCase[CHOOSE i \in 1..Len(UpperCase) : UpperCase[i] = c]
    ELSE c
Lower(s) == [i \in 1..Len(s) |-> LowerChar(s[i])]

\* the Python test `needle in hay` on strings
Contains(needle, hay) ==
    \E i \in 0..(Len(hay) - Len(needle)) : SubSeq(hay, i + 1, i + Len(needle)) = needle

\* int(text) for a string of decimal digits
DigitVal(c) == (CHOOSE i \in 1..Len(Digits) : Digits[i] = c) - 1
RECURSIVE StrToInt(_)
StrToInt(s) ==
    IF s = <<>> THEN 0
    ELSE 10 * StrToInt(SubSeq(s, 1, Len(s) - 1)) + DigitVal(s[Len(s)])

\* str(n) for a natural number, as an f-string formats it
RECURSIVE IntToStr(_)
IntToStr(n) ==
    IF n < 10 THEN <<Digits[n + 1]>>
    ELSE IntToStr(n \div 10) \o <<Digits[(n % 10) + 1]>>

\* 'https://t.me/'
UrlPrefix == <<"h","t","t","p","s",":","/","/","t",".","m","e","/">>
\* 'Invalid Telegram URL format: '
MsgInvalidUrl ==
    <<"I","n","v","a","l","i","d"," ","T","e","l","e","g","r","a","m"," ","U","R","L",
      " ","f","o","r","m","a","t",":"," ">>
\* 'Post not found: '
MsgPostNotFound == <<"P","o","s","t"," ","n","o","t"," ","f","o","u","n","d",":"," ">>
\* 'Invalid message ID for channel '
MsgInvalidMsgIdPre ==
    <<"I","n","v","a","l","i","d"," ","m","e","s","s","a","g","e"," ","I","D"," ","f",
      "o","r"," ","c","h","a","n","n","e","l"," ">>
\* 'Channel '
MsgChannelPre == <<"C","h","a","n","n","e","l"," ">>
\* ' is private or inaccessible'
MsgPrivatePost ==
    <<" ","i","s"," ","p","r","i","v","a","t","e"," ","o","r"," ","i","n","a","c","c",
      "e","s","s","i","b","l","e">>
\* ' has blocked this account'
MsgBlockedPost ==
    <<" ","h","a","s"," ","b","l","o","c","k","e","d"," ","t","h","i","s"," ","a","c",
      "c","o","u","n","t">>
\* 'Rate limited. Try again in '
MsgRateLimitedPre ==
    <<"R","a","t","e"," ","l","i","m","i","t","e","d","."," ","T","r","y"," ","a","g",
      "a","i","n"," ","i","n"," ">>
\* ' seconds'
MsgRateLimitedPost == <<" ","s","e","c","o","n","d","s">>
\* 'Message has not been modified'
MsgNotModified ==
    <<"M","e","s","s","a","g","e"," ","h","a","s"," ","n","o","t"," ","b","e","e","n",
      " ","m","o","d","i","f","i","e","d">>
\* 'Failed to parse post: '
MsgFailedPre ==
    <<"F","a","i","l","e","d"," ","t","o"," ","p","a","r","s","e"," ","p","o","s","t",
      ":"," ">>
\* 'An unexpected error occurred'
MsgUnexpected ==
    <<"A","n"," ","u","n","e","x","p","e","c","t","e","d"," ","e","r","r","o","r"," ",
      "o","c","c","u","r","r","e","d">>
\* 'Access denied'
MsgAccessDenied == <<"A","c","c","e","s","s"," ","d","e","n","i","e","d">>
\* 'Invalid Telegram URL format'
KwInvalidUrl ==
    <<"I","n","v","a","l","i","d"," ","T","e","l","e","g","r","a","m"," ","U","R","L",
      " ","f","o","r","m","a","t">>
\* 'not found'
KwNotFound == <<"n","o","t"," ","f","o","u","n","d">>
\* 'Invalid message ID'
KwInvalidMsgId == <<"I","n","v","a","l","i","d"," ","m","e","s","s","a","g","e"," ","I","D">>
\* 'private'
KwPrivate == <<"p","r","i","v","a","t","e">>
\* 'inaccessible'
KwInaccessible == <<"i","n","a","c","c","e","s","s","i","b","l","e">>
\* 'Rate limited'
KwRateLimited == <<"R","a","t","e"," ","l","i","m","i","t","e","d">>
\* 'rate'
KwRate == <<"r","a","t","e">>
\* 'blocked'
KwBlocked == <<"b","l","o","c","k","e","d">>
\* 'https://t.me/i/userpic/320/'
ThumbPre ==
    <<"h","t","t","p","s",":","/","/","t",".","m","e","/","i","/","u","s","e","r","p",
      "i","c","/","3","2","0","/">>
\* '.jpg'
ThumbPost == <<".","j","p","g">>

(***************************************************************************)
(* URL parser: TelegramParserClient.parse_post_url                         *)
(***************************************************************************)
\* the character class [a-zA-Z0-9_] and the class \d (on ASCII input)
WordChars == Range(LowerCase) \cup Range(UpperCase) \cup Range(Digits) \cup {"_"}
DigitChars == Range(Digits)

\* the length of the longest run of characters of cls that starts at s[i]:
\* what a greedy cls+ consumes
RECURSIVE RunLen(_, _, _)
RunLen(s, i, cls) ==
    IF i > Len(s) \/ s[i] \notin cls THEN 0 ELSE 1 + RunLen(s, i + 1, cls)

\* re.match(r'https://t\.me/([a-zA-Z0-9_]+)/(\d+)', url): anchored at the start of
\* the string only; what follows the digits is not looked at
ReMatch(url) ==
    LET p == Len(UrlPrefix)
        n1 == RunLen(url, p + 1, WordChars)
        slash == p + n1 + 1
        n2 == RunLen(url, slash + 1, DigitChars)
    IN  IF Len(url) < p \/ SubSeq(url, 1, p) # UrlPrefix THEN None
        ELSE IF n1 = 0 \/ slash > Len(url) THEN None
        ELSE IF url[slash] # "/" \/ n2 = 0 THEN None
        ELSE Some([group1 |-> SubSeq(url, p + 1, p + n1),
                   group2 |-> SubSeq(url, slash + 1, slash + n2)])

\* parse_post_url: the pair (channel, message_id), or the ValueError it raises
parse_post_url(url) ==
    LET match == ReMatch(url)
    IN  IF match = None
        THEN [ok |-> FALSE, error |-> MsgInvalidUrl \o url]
        ELSE [ok |-> TRUE, channel |-> match[1].group1,
              message_id |-> StrToInt(match[1].group2)]

(***************************************************************************)
(* The inputs of the URL parser                                            *)
(***************************************************************************)
MaxTail == 4

\* what may stand where 'https://t.me/' is expected: the prefix itself, another
\* scheme, a host in which the dot is another character, a missing slash,
\* upper case, a leading blank, nothing
UrlHeads ==
    { UrlPrefix,
      <<"h","t","t","p",":","/","/","t",".","m","e","/">>,
      <<"h","t","t","p","s",":","/","/","t","x","m","e","/">>,
      <<"h","t","t","p","s",":","/","/","t",".","m","e">>,
      <<"H","T","T","P","S",":","/","/","T",".","M","E","/">>,
      <<" ">> \o UrlPrefix,
      <<>> }
TailChars == {"a", "Z", "_", "7", "0", "/", "?"}
UrlTails == UNION {[1..n -> TailChars] : n \in 0..MaxTail}
UrlInputs == {h \o t : h \in UrlHeads, t \in UrlTails}

\* one call parse_post_url(url_in)
CallParsePostUrl ==
    /\ url_out = None
    /\ url_out' = Some(parse_post_url(url_in))
    /\ UNCHANGED url_in

(***************************************************************************)
(* Session manager: TelegramParserClient.initialize / connect / disconnect *)
(***************************************************************************)
\* TelegramClient(session_path, api_id, api_hash)
TelegramClient(session_path, api_id, api_hash) ==
    [session |-> session_path, api_id |-> api_id, api_hash |-> api_hash]

\* '/app/data/telegram_session', the default of initialize's session_path
DefaultSessionPath ==
    <<"/","a","p","p","/","d","a","t","a","/","t","e","l","e","g","r","a","m","_","s",
      "e","s","s","i","o","n">>

\* initialize: `if self._client is None`
InitializeConstructs(c) == c = None
\* connect without the is_connected() test: `if self._client`
ConnectInvokes_Always(c, conn) == c # None

\* connect: `if self._client and not self._client.is_connected()`
ConnectInvokes(c, conn) == c # None /\ ~conn
\* disconnect: `if self._client and self._client.is_connected()`
DisconnectInvokes(c, conn) == c # None /\ conn

\* self._client after initialize(api_id, api_hash)
initialize(c, api_id, api_hash) ==
    IF InitializeConstructs(c)
    THEN Some(TelegramClient(DefaultSessionPath, api_id, api_hash))
    ELSE c

(***************************************************************************)
(* The session manager called directly: any sequence of initialize,        *)
(* connect and disconnect, and the connection lost in between              *)
(***************************************************************************)
MaxOps == 4

\* '12345'
ApiId == <<"1","2","3","4","5">>
\* '0a1b2c'
ApiHash == <<"0","a","1","b","2","c">>
\* '67890'
ApiId2 == <<"6","7","8","9","0">>
\* 'ffee00'
ApiHash2 == <<"f","f","e","e","0","0">>
Credentials == {[api_id |-> ApiId, api_hash |-> ApiHash],
                [api_id |-> ApiId2, api_hash |-> ApiHash2]}

\* one entry of ops: the call, the session before and after it, the SDK method
\* it invoked (<<>> when none) and whether it returned normally
OpEntry(op, arg, sdk, ok, c, conn) ==
    [op |-> op, arg |-> arg, sdk |-> sdk, ok |-> ok,
     pre_client |-> client, pre_connected |-> connected,
     client |-> c, connected |-> conn]

UnusedRequest ==
    /\ allowed_ips = <<>>
    /\ phase = "down"
    /\ pc = <<"idle", "">>
    /\ req = None
    /\ loc = None
    /\ resp = None
    /\ calls = <<>>
    /\ hist = None

InitSession ==
    /\ client = None
    /\ connected = FALSE
    /\ ops = <<>>
    /\ url_in = <<>>
    /\ url_out = None
    /\ UnusedRequest

requestVars == <<allowed_ips, phase, pc, req, loc, resp, calls, hist>>
urlVars == <<url_in, url_out>>

\* telegram_parser.initialize(api_id, api_hash)
CallInitialize(cred) ==
    /\ Len(ops) < MaxOps
    /\ client' = initialize(client, cred.api_id, cred.api_hash)
    /\ connected' = connected
    /\ ops' = Append(ops, OpEntry("initialize", Some(cred),
                                  IF InitializeConstructs(client)
                                  THEN Some("TelegramClient") ELSE None,
                                  TRUE, client', connected'))
    /\ UNCHANGED <<requestVars, urlVars>>

\* await telegram_parser.connect(); the SDK's connect either establishes the
\* session or raises
CallConnect(ok) ==
    /\ Len(ops) < MaxOps
    /\ ok \/ ConnectInvokes(client, connected)
    /\ connected' = IF ConnectInvokes(client, connected) THEN ok ELSE connected
    /\ client' = client
    /\ ops' = Append(ops, OpEntry("connect", None,
                                  IF ConnectInvokes(client, connected)
                                  THEN Some("connect") ELSE None,
                                  ok, client', connected'))
    /\ UNCHANGED <<requestVars, urlVars>>

\* await telegram_parser.disconnect()
CallDisconnect ==
    /\ Len(ops) < MaxOps
    /\ connected' = IF DisconnectInvokes(client, connected) THEN FALSE ELSE connected
    /\ client' = client
    /\ ops' = Append(ops, OpEntry("disconnect", None,
                                  IF DisconnectInvokes(client, connected)
                                  THEN Some("disconnect") ELSE None,
                                  TRUE, client', connected'))
    /\ UNCHANGED <<requestVars, urlVars>>

\* the network session is lost: is_connected() answers False from now on
SessionLost ==
    /\ Len(ops) < MaxOps
    /\ connected
    /\ connected' = FALSE
    /\ client' = client
    /\ ops' = Append(ops, OpEntry("lost", None, None, TRUE, client', connected'))
    /\ UNCHANGED <<requestVars, urlVars>>

NextSession ==
    \/ \E cred \in Credentials : CallInitialize(cred)
    \/ \E ok \in BOOLEAN : CallConnect(ok)
    \/ CallDisconnect
    \/ SessionLost

SpecSession == InitSession /\ [][NextSession]_vars

NextUrl == CallParsePostUrl /\ UNCHANGED <<client, connected, ops, requestVars>>

InitUrl ==
    /\ url_in \in UrlInputs
    /\ url_out = None
    /\ client = None
    /\ connected = FALSE
    /\ ops = <<>>
    /\ UnusedRequest

SpecUrl == InitUrl /\ [][NextUrl]_vars

(***************************************************************************)
(* C3                                                                      *)
(***************************************************************************)
\* the whole string is https://t.me/<channel>/<digits>; k is where the second
\* slash stands
WholeUrlAt(url, k) ==
    LET p == Len(UrlPrefix)
    IN  /\ Len(url) > p
        /\ SubSeq(url, 1, p) = UrlPrefix
        /\ p + 1 < k /\ k < Len(url)
        /\ url[k] = "/"
        /\ \A i \in (p + 1)..(k - 1) : url[i] \in WordChars
        /\ \A i \in (k + 1)..Len(url) : url[i] \in DigitChars
WholeUrl(url) == \E k \in 1..Len(url) : WholeUrlAt(url, k)

\* C3: parse_post_url returns (channel, message_id) exactly when the whole input
\* string has the form https://t.me/<channel>/<digits>, and then returns that
\* token and the integer value of the digits; every other string, a well-formed
\* URL followed by extra characters included, fails with the invalid-URL error.
C3_ParsesExactlyWholeUrls ==
    url_out # None =>
        /\ url_out[1].ok <=> WholeUrl(url_in)
        /\ ~url_out[1].ok => url_out[1].error = MsgInvalidUrl \o url_in
        /\ \A k \in 1..Len(url_in) :
              WholeUrlAt(url_in, k) /\ url_out[1].ok =>
                  /\ url_out[1].channel = SubSeq(url_in, Len(UrlPrefix) + 1, k - 1)
                  /\ url_out[1].message_id = StrToInt(SubSeq(url_in, k + 1, Len(url_in)))

\* What the code does keep of C3: a whole well-formed URL is accepted with its
\* exact token and id, and whatever is accepted starts with such a URL.
C3_AcceptsUrlPrefixes ==
    url_out # None =>
        /\ WholeUrl(url_in) => url_out[1].ok
        /\ \A k \in 1..Len(url_in) :
              WholeUrlAt(url_in, k) =>
                  /\ url_out[1].channel = SubSeq(url_in, Len(UrlPrefix) + 1, k - 1)
                  /\ url_out[1].message_id = StrToInt(SubSeq(url_in, k + 1, Len(url_in)))
        /\ url_out[1].ok => \E n \in 1..Len(url_in) : WholeUrl(SubSeq(url_in, 1, n))

(***************************************************************************)
(* The remote layer: what the SDK calls of one request may answer          *)
(***************************************************************************)
\* 'database is locked'
TextLocked == <<"d","a","t","a","b","a","s","e"," ","i","s"," ","l","o","c","k","e","d">>
\* 'entity not found'
TextNotFound == <<"e","n","t","i","t","y"," ","n","o","t"," ","f","o","u","n","d">>
\* 'Daily News'
TitleNews == <<"D","a","i","l","y"," ","N","e","w","s">>
\* 'news_hq'
UserNews == <<"n","e","w","s","_","h","q">>

\* an exception of the remote layer: its class, e.seconds of a FloodWaitError,
\* and str(e)
Error(kind, seconds, text) == [kind |-> kind, seconds |-> seconds, text |-> text]
FloodSeconds == {30}
OtherTexts == {TextLocked, TextNotFound}
RemoteErrors ==
    {Error(k, 0, <<>>) : k \in {"MsgIdInvalidError", "ChannelPrivateError",
                                "UserIsBlockedError", "MessageNotModifiedError"}}
    \cup {Error("FloodWaitError", n, <<>>) : n \in FloodSeconds}
    \cup {Error("Exception", 0, t) : t \in OtherTexts}
\* what the SDK's connect raises when the session cannot be established
ConnectErrors == {Error("ConnectionError", 0, TextLocked)}

\* the id of the resolved channel
ChannelIds == {1001}

\* a timestamp and datetime.isoformat() of it
Pad2(n) == IF n < 10 THEN <<"0">> \o IntToStr(n) ELSE IntToStr(n)
isoformat(d) ==
    IntToStr(d.year) \o <<"-">> \o Pad2(d.month) \o <<"-">> \o Pad2(d.day) \o <<"T">>
    \o Pad2(d.hour) \o <<":">> \o Pad2(d.minute) \o <<":">> \o Pad2(d.second)
    \o <<"+","0","0",":","0","0">>
PostDate == [year |-> 2024, month |-> 3, day |-> 9, hour |-> 18, minute |-> 5, second |-> 0]

\* the messages get_messages may return: views, the reactions embedded in the
\* message (label, count), date and photo
Messages ==
    { [views |-> Some(1000), reactions |-> {<<"A", 5>>, <<"B", 3>>},
       date |-> Some(PostDate), photo |-> None],
      [views |-> None, reactions |-> {},
       date |-> None, photo |-> Some([type |-> "Photo", id |-> 77])],
      [views |-> Some(0), reactions |-> {<<"A", 0>>, <<"B", 2>>},
       date |-> Some(PostDate), photo |-> Some([type |-> "PhotoEmpty", id |-> 0])] }
\* get_messages(channel_id, ids=[message_id]): an empty list, [None] or [message]
MessageLists == {<<>>, <<None>>} \cup {<<Some(m)>> : m \in Messages}

\* the channel entities get_entity(channel_id) may return
Entities ==
    { [title |-> Some(TitleNews), first_name |-> None, username |-> Some(UserNews),
       photo |-> Some([photo_id |-> 5])],
      [title |-> None, first_name |-> None, username |-> None, photo |-> None] }

\* the answer to a count request: no result object, or a result with its count
\* (participants_count may be None)
CountResults ==
    [comments |-> {None, Some([count |-> Some(2)])},
     reposts |-> {None, Some([count |-> Some(1)])},
     channel_subscribers |-> {Some([count |-> None]), Some([count |-> Some(4200)])}]

(***************************************************************************)
(* Inputs of the service                                                   *)
(***************************************************************************)
\* '10.0.0.1'
Ip1 == <<"1","0",".","0",".","0",".","1">>
\* '10.0.0.2'
Ip2 == <<"1","0",".","0",".","0",".","2">>
\* '10.0.0.3'
Ip3 == <<"1","0",".","0",".","0",".","3">>
CallerIps == {Ip1, Ip2, Ip3}

\* the values of the environment variable ALLOWED_IPS: unset, empty, two
\* addresses, two addresses with a blank after the comma, a lone comma
AllowedIpsEnv ==
    {None, Some(<<>>), Some(Ip1 \o <<",">> \o Ip2), Some(Ip1 \o <<",", " ">> \o Ip2),
     Some(<<",">>)}

\* 'https://t.me/news/99'
UrlNews == <<"h","t","t","p","s",":","/","/","t",".","m","e","/","n","e","w","s","/","9","9">>
\* 'https://t.me/pirates/7'
UrlPirates ==
    <<"h","t","t","p","s",":","/","/","t",".","m","e","/","p","i","r","a","t","e","s",
      "/","7">>
\* 'https://t.me/news/99?single'
UrlTrailing ==
    <<"h","t","t","p","s",":","/","/","t",".","m","e","/","n","e","w","s","/","9","9",
      "?","s","i","n","g","l","e">>
\* 'not-a-url'
UrlNotAUrl == <<"n","o","t","-","a","-","u","r","l">>
\* 'https://t.me/news'
UrlNoId == <<"h","t","t","p","s",":","/","/","t",".","m","e","/","n","e","w","s">>
RequestUrls == {UrlNews, UrlPirates, UrlTrailing, UrlNotAUrl, UrlNoId}

\* TELEGRAM_API_ID and TELEGRAM_API_HASH as the process finds them
StartupEnvs ==
    { [api_id |-> Some(ApiId), api_hash |-> Some(ApiHash)],
      [api_id |-> None, api_hash |-> Some(ApiHash)],
      [api_id |-> Some(ApiId), api_hash |-> Some(<<>>)] }

(***************************************************************************)
(* main.py: configuration and the error mapping of parse_telegram_post     *)
(***************************************************************************)
\* Python's truth value of an Optional string
Truthy(o) == o # None /\ o[1] # <<>>

\* str.split(sep) for a one-character separator
RECURSIVE Split(_, _)
Split(s, sep) ==
    IF sep \notin Range(s) THEN <<s>>
    ELSE LET i == CHOOSE j \in 1..Len(s) : s[j] = sep /\ \A k \in 1..(j - 1) : s[k] # sep
         IN  <<SubSeq(s, 1, i - 1)>> \o Split(SubSeq(s, i + 1, Len(s)), sep)

\* allowed_ips = os.getenv("ALLOWED_IPS", "").split(",") if os.getenv("ALLOWED_IPS") else []
AllowedIps(env) == IF Truthy(env) THEN Split(env[1], ",") ELSE <<>>

\* the error code the handler derives from the text of the ValueError
ErrorCode(m) ==
    IF Contains(KwInvalidUrl, m) THEN "INVALID_URL"
    ELSE IF Contains(KwNotFound, Lower(m)) \/ Contains(KwInvalidMsgId, m)
         THEN "POST_NOT_FOUND"
    ELSE IF Contains(KwPrivate, Lower(m)) \/ Contains(KwInaccessible, Lower(m))
         THEN "CHANNEL_PRIVATE"
    ELSE IF Contains(KwRateLimited, m) \/ Contains(KwRate, Lower(m))
         THEN "TELEGRAM_RATE_LIMIT"
    ELSE IF Contains(KwBlocked, Lower(m)) THEN "CHANNEL_BLOCKED"
    ELSE "INTERNAL_ERROR"

\* status_code_map.get(error_code, 500)
StatusCode(code) ==
    CASE code = "INVALID_URL" -> 400
      [] code = "POST_NOT_FOUND" -> 404
      [] code = "CHANNEL_PRIVATE" -> 403
      [] code = "TELEGRAM_RATE_LIMIT" -> 429
      [] code = "CHANNEL_BLOCKED" -> 403
      [] code = "INTERNAL_ERROR" -> 500
      [] OTHER -> 500

ErrorResponse(error, error_code) ==
    [success |-> FALSE, error |-> error, error_code |-> error_code]

\* `except ValueError as e`: the HTTPException the handler raises
OnValueError(m) ==
    [status |-> StatusCode(ErrorCode(m)), body |-> ErrorResponse(m, ErrorCode(m))]

\* `except Exception as e`: the catch-all of the handler
OnException == [status |-> 500, body |-> ErrorResponse(MsgUnexpected, "INTERNAL_ERROR")]

\* the JSONResponse of IPAllowlistMiddleware
AccessDenied == [status |-> 403, body |-> ErrorResponse(MsgAccessDenied, "FORBIDDEN")]

\* dispatch with the test inverted: `client_ip in self.allowed_ips`
Denies_Inverted(ips, client_ip) == ips # <<>> /\ client_ip \in Range(ips)

\* IPAllowlistMiddleware.dispatch: `if self.allowed_ips and client_ip not in self.allowed_ips`
Denies(ips, client_ip) == ips # <<>> /\ client_ip \notin Range(ips)
\* main.py: `if allowed_ips:` the middleware is added to the application
MiddlewareAdded(ips) == ips # <<>>

(***************************************************************************)
(* telegram_client.py: parse_post                                          *)
(***************************************************************************)
\* the except clauses of parse_post: the text of the ValueError raised for an
\* exception e of the try block
ParsePostError(e, channel) ==
    CASE e.kind = "MsgIdInvalidError" -> MsgInvalidMsgIdPre \o channel
      [] e.kind = "ChannelPrivateError" -> MsgChannelPre \o channel \o MsgPrivatePost
      [] e.kind = "UserIsBlockedError" -> MsgChannelPre \o channel \o MsgBlockedPost
      [] e.kind = "FloodWaitError" ->
            MsgRateLimitedPre \o IntToStr(e.seconds) \o MsgRateLimitedPost
      [] e.kind = "MessageNotModifiedError" -> MsgNotModified
      [] OTHER -> MsgFailedPre \o e.text

\* an outcome of a best-effort fetch: an exception somewhere in its try block,
\* or the result object of its request
Raised == [raised |-> TRUE, result |-> None]
Returned(r) == [raised |-> FALSE, result |-> r]

\* get_comments_count: `result.count if result else 0`, 0 on any exception
get_comments_count(out) ==
    IF out.raised THEN 0
    ELSE IF out.result # None THEN out.result[1].count[1] ELSE 0

\* get_reposts_count: `result.count if result else 0`, 0 on any exception
get_reposts_count(out) ==
    IF out.raised THEN 0
    ELSE IF out.result # None THEN out.result[1].count[1] ELSE 0

\* get_channel_subscribers_safe with the except clause of the two count helpers
\* (`return 0`)
get_channel_subscribers_safe_Zero(out) ==
    IF out.raised THEN Some(0)
    ELSE IF out.result # None THEN out.result[1].count ELSE None

\* get_channel_subscribers_safe: participants_count or None, None on any exception
get_channel_subscribers_safe(out) ==
    IF out.raised THEN None
    ELSE IF out.result # None THEN out.result[1].count ELSE None

BestEffort(f, out) ==
    CASE f = "comments" -> get_comments_count(out)
      [] f = "reposts" -> get_reposts_count(out)
      [] f = "channel_subscribers" -> get_channel_subscribers_safe(out)

\* the request each best-effort fetch sends after get_entity(channel_id)
RequestOf(f) ==
    CASE f = "comments" -> "GetRepliesRequest"
      [] f = "reposts" -> "GetMessagePublicForwardsRequest"
      [] f = "channel_subscribers" -> "GetFullChannelRequest"

\* the result dictionary of parse_post, from its local variables
BuildResult(l) ==
    LET message == l.message[1]
        channel_entity == l.channel_entity[1]
        views == IF message.views # None /\ message.views[1] # 0
                 THEN message.views[1] ELSE 0
        channel_name ==
            IF Truthy(channel_entity.title) THEN channel_entity.title[1]
            ELSE IF Truthy(channel_entity.first_name) THEN channel_entity.first_name[1]
            ELSE l.channel
        channel_username ==
            IF Truthy(channel_entity.username) THEN channel_entity.username[1]
            ELSE l.channel
        channel_thumbnail ==
            IF channel_entity.photo # None
               /\ "photo_id" \in DOMAIN channel_entity.photo[1]
            THEN Some(ThumbPre \o channel_username \o ThumbPost)
            ELSE None
        post_photo_available == message.photo # None
        post_photo_id ==
            IF post_photo_available /\ message.photo[1].type = "Photo"
            THEN Some(IntToStr(message.photo[1].id))
            ELSE None
    IN  [success |-> TRUE,
         channel |-> channel_username,
         channel_id |-> l.channel_id,
         channel_username |-> channel_username,
         channel_name |-> Some(channel_name),
         channel_thumbnail |-> channel_thumbnail,
         channel_subscribers |-> l.channel_subscribers,
         message_id |-> l.message_id,
         views |-> views,
         comments |-> l.comments,
         reposts |-> l.reposts,
         message_date |-> IF message.date # None THEN Some(isoformat(message.date[1]))
                          ELSE None,
         post_photo_available |-> post_photo_available,
         post_photo_id |-> post_photo_id]

\* PostParseResponse with `has_reactions: bool = True`
PostParseResponseDefaults_HasReactions ==
    [success |-> TRUE, channel_name |-> None, channel_thumbnail |-> None,
     channel_subscribers |-> None, reactions |-> {}, total_reactions |-> 0,
     comments |-> 0, reposts |-> 0, message_date |-> None, has_reactions |-> TRUE,
     post_photo_available |-> FALSE, post_photo_id |-> None]

\* models.PostParseResponse: the defaults of its optional fields
PostParseResponseDefaults ==
    [success |-> TRUE, channel_name |-> None, channel_thumbnail |-> None,
     channel_subscribers |-> None, reactions |-> {}, total_reactions |-> 0,
     comments |-> 0, reposts |-> 0, message_date |-> None, has_reactions |-> FALSE,
     post_photo_available |-> FALSE, post_photo_id |-> None]

\* PostParseResponse(**result): the fields given, the defaults for the others
PostParseResponse(result) ==
    [f \in DOMAIN PostParseResponseDefaults \cup DOMAIN result |->
        IF f \in DOMAIN result THEN result[f] ELSE PostParseResponseDefaults[f]]

(***************************************************************************)
(* The service: startup, one request at a time through the middleware, the *)
(* handler and parse_post, one action per await                            *)
(***************************************************************************)
LocInit ==
    [channel |-> <<>>, message_id |-> 0, channel_id |-> 0, message |-> None,
     channel_entity |-> None, comments |-> 0, reposts |-> 0,
     channel_subscribers |-> None]

\* handler_ran: call_next was reached; raised: the step of parse_post that raised
\* and its exception; fetched: the outcome of each best-effort fetch
HistInit ==
    [handler_ran |-> FALSE, raised |-> None,
     fetched |-> [comments |-> None, reposts |-> None, channel_subscribers |-> None]]

Init ==
    /\ allowed_ips \in {AllowedIps(env) : env \in AllowedIpsEnv}
    /\ client = None
    /\ connected = FALSE
    /\ ops = <<>>
    /\ url_in = <<>>
    /\ url_out = None
    /\ phase = "down"
    /\ pc = <<"idle", "">>
    /\ req = None
    /\ loc = LocInit
    /\ resp = None
    /\ calls = <<>>
    /\ hist = HistInit

sessionVars == <<client, connected>>
configVars == <<allowed_ips, ops, url_in, url_out>>

\* lifespan, startup: the credentials are read, the client initialized and connected
Startup(env, ok) ==
    /\ phase = "down"
    /\ IF ~Truthy(env.api_id) \/ ~Truthy(env.api_hash)
       THEN /\ phase' = "failed"
            /\ UNCHANGED sessionVars
       ELSE /\ client' = initialize(client, env.api_id[1], env.api_hash[1])
            /\ connected' = IF ConnectInvokes(client', connected) THEN ok ELSE connected
            /\ phase' = IF ConnectInvokes(client', connected) /\ ~ok THEN "failed" ELSE "up"
    /\ UNCHANGED <<configVars, pc, req, loc, resp, calls, hist>>

\* lifespan, shutdown: no request is in flight, and the last one is forgotten
Shutdown ==
    /\ phase = "up"
    /\ pc \in {<<"idle", "">>, <<"done", "">>}
    /\ connected' = IF DisconnectInvokes(client, connected) THEN FALSE ELSE connected
    /\ phase' = "stopped"
    /\ pc' = <<"idle", "">>
    /\ req' = None
    /\ loc' = LocInit
    /\ resp' = None
    /\ calls' = <<>>
    /\ hist' = HistInit
    /\ UNCHANGED <<configVars, client>>

\* the network session is lost while the service runs
ConnectionDrop ==
    /\ phase = "up"
    /\ connected
    /\ connected' = FALSE
    /\ UNCHANGED <<configVars, client, phase, pc, req, loc, resp, calls, hist>>

\* a request GET /parse/telegram/single?url=... arrives from client_ip
Arrive(client_ip, url) ==
    /\ phase = "up"
    /\ pc \in {<<"idle", "">>, <<"done", "">>}
    /\ req' = Some([client_ip |-> client_ip, url |-> url])
    /\ pc' = <<"dispatch", "">>
    /\ loc' = LocInit
    /\ resp' = None
    /\ calls' = <<>>
    /\ hist' = HistInit
    /\ UNCHANGED <<configVars, sessionVars, phase>>

\* IPAllowlistMiddleware.dispatch, when the middleware was added
Dispatch ==
    /\ pc = <<"dispatch", "">>
    /\ IF MiddlewareAdded(allowed_ips) /\ Denies(allowed_ips, req[1].client_ip)
       THEN /\ resp' = Some(AccessDenied)
            /\ pc' = <<"done", "">>
            /\ hist' = hist
       ELSE /\ resp' = resp
            /\ pc' = <<"parse", "">>
            /\ hist' = [hist EXCEPT !.handler_ran = TRUE]
    /\ UNCHANGED <<configVars, sessionVars, phase, req, loc, calls>>

\* parse_post_url raised: parse_post re-raises ValueError(str(e))
OnInvalidUrl(r) ==
    /\ resp' = Some(OnValueError(r.error))
    /\ pc' = <<"done", "">>
    /\ hist' = [hist EXCEPT !.raised = Some([step |-> "parse_post_url",
                                             error |-> Error("ValueError", 0, r.error)])]
    /\ loc' = loc

\* parse_post with `await self.connect()` moved before the URL is parsed
ParseUrl_AfterConnect ==
    /\ pc = <<"parse", "">>
    /\ IF ConnectInvokes(client, connected)
       THEN calls' = Append(calls, "connect") /\ connected' = TRUE
       ELSE UNCHANGED <<calls, connected>>
    /\ LET r == parse_post_url(req[1].url)
       IN  IF r.ok
           THEN /\ loc' = [loc EXCEPT !.channel = r.channel, !.message_id = r.message_id]
                /\ pc' = <<"resolve", "connect">>
                /\ UNCHANGED <<resp, hist>>
           ELSE OnInvalidUrl(r)
    /\ UNCHANGED <<configVars, client, phase, req>>

\* parse_telegram_post calls parse_post, which parses the URL first
ParseUrl ==
    /\ pc = <<"parse", "">>
    /\ LET r == parse_post_url(req[1].url)
       IN  IF r.ok
           THEN /\ loc' = [loc EXCEPT !.channel = r.channel, !.message_id = r.message_id]
                /\ pc' = <<"connect", "">>
                /\ UNCHANGED <<resp, hist>>
           ELSE OnInvalidUrl(r)
    /\ UNCHANGED <<configVars, sessionVars, phase, req, calls>>

\* an exception e leaves the try block of parse_post at `step`: the except
\* clauses turn it into a ValueError, the handler into the error response
RaiseInTry(step, e) ==
    /\ resp' = Some(OnValueError(ParsePostError(e, loc.channel)))
    /\ pc' = <<"done", "">>
    /\ hist' = [hist EXCEPT !.raised = Some([step |-> step, error |-> e])]

\* `await self.connect()` before the try block (line 173): an exception of the
\* SDK's connect is no ValueError and reaches the catch-all of the handler
Connect(ok) ==
    /\ pc = <<"connect", "">>
    /\ IF ConnectInvokes(client, connected)
       THEN /\ calls' = Append(calls, "connect")
            /\ connected' = ok
            /\ IF ok
               THEN /\ pc' = <<"resolve", "connect">>
                    /\ UNCHANGED <<resp, hist>>
               ELSE /\ \E e \in ConnectErrors :
                          hist' = [hist EXCEPT !.raised =
                                      Some([step |-> "connect", error |-> e])]
                    /\ resp' = Some(OnException)
                    /\ pc' = <<"done", "">>
       ELSE /\ ok
            /\ pc' = <<"resolve", "connect">>
            /\ UNCHANGED <<connected, calls, resp, hist>>
    /\ UNCHANGED <<configVars, client, phase, req, loc>>

\* get_channel_id_by_username: `await self.connect()`, inside the try block
ResolveConnect(ok) ==
    /\ pc = <<"resolve", "connect">>
    /\ IF ConnectInvokes(client, connected)
       THEN /\ calls' = Append(calls, "connect")
            /\ connected' = ok
            /\ IF ok
               THEN /\ pc' = <<"resolve", "entity">>
                    /\ UNCHANGED <<resp, hist>>
               ELSE \E e \in ConnectErrors : RaiseInTry("resolve", e)
       ELSE /\ ok
            /\ pc' = <<"resolve", "entity">>
            /\ UNCHANGED <<connected, calls, resp, hist>>
    /\ UNCHANGED <<configVars, client, phase, req, loc>>

\* get_channel_id_by_username: `channel = await self._client.get_entity(channel_username)`
Resolve ==
    /\ pc = <<"resolve", "entity">>
    /\ calls' = Append(calls, "get_entity")
    /\ \/ /\ connected
          /\ \E id \in ChannelIds : loc' = [loc EXCEPT !.channel_id = id]
          /\ pc' = <<"get_messages", "">>
          /\ UNCHANGED <<resp, hist>>
       \/ /\ \E e \in RemoteErrors : RaiseInTry("resolve", e)
          /\ loc' = loc
    /\ UNCHANGED <<configVars, sessionVars, phase, req>>

\* `messages = await self._client.get_messages(channel_id, ids=[message_id])` and
\* the test that follows; its ValueError is raised inside the try block
GetMessages ==
    /\ pc = <<"get_messages", "">>
    /\ calls' = Append(calls, "get_messages")
    /\ \/ /\ connected
          /\ \E messages \in MessageLists :
                IF messages = <<>> \/ messages[1] = None
                THEN /\ RaiseInTry("get_messages",
                                   Error("ValueError", 0, MsgPostNotFound \o req[1].url))
                     /\ loc' = loc
                ELSE /\ loc' = [loc EXCEPT !.message = messages[1]]
                     /\ pc' = <<"get_entity", "">>
                     /\ UNCHANGED <<resp, hist>>
       \/ /\ \E e \in RemoteErrors : RaiseInTry("get_messages", e)
          /\ loc' = loc
    /\ UNCHANGED <<configVars, sessionVars, phase, req>>

\* `channel_entity = await self._client.get_entity(channel_id)`
GetEntity ==
    /\ pc = <<"get_entity", "">>
    /\ calls' = Append(calls, "get_entity")
    /\ \/ /\ connected
          /\ \E entity \in Entities : loc' = [loc EXCEPT !.channel_entity = Some(entity)]
          /\ pc' = <<"comments", "connect">>
          /\ UNCHANGED <<resp, hist>>
       \/ /\ \E e \in RemoteErrors : RaiseInTry("get_entity", e)
          /\ loc' = loc
    /\ UNCHANGED <<configVars, sessionVars, phase, req>>

BestEffortFetches == {"comments", "reposts", "channel_subscribers"}

\* the best-effort fetch f returns (its value, or its default after an
\* exception); parse_post goes on, and after the last fetch builds the result,
\* which the handler returns as PostParseResponse(**result)
Return(f, out) ==
    LET l == [loc EXCEPT ![f] = BestEffort(f, out)]
    IN  /\ loc' = l
        /\ hist' = [hist EXCEPT !.fetched[f] = Some(out)]
        /\ CASE f = "comments" -> pc' = <<"reposts", "connect">> /\ resp' = resp
             [] f = "reposts" -> pc' = <<"channel_subscribers", "connect">> /\ resp' = resp
             [] f = "channel_subscribers" ->
                   /\ pc' = <<"done", "">>
                   /\ resp' = Some([status |-> 200,
                                    body |-> PostParseResponse(BuildResult(l))])

\* get_comments_count, get_reposts_count, get_channel_subscribers_safe:
\* `await self.connect()`
FetchConnect(f, ok) ==
    /\ pc = <<f, "connect">>
    /\ IF ConnectInvokes(client, connected)
       THEN /\ calls' = Append(calls, "connect")
            /\ connected' = ok
            /\ IF ok
               THEN /\ pc' = <<f, "entity">>
                    /\ UNCHANGED <<resp, hist, loc>>
               ELSE Return(f, Raised)
       ELSE /\ ok
            /\ pc' = <<f, "entity">>
            /\ UNCHANGED <<connected, calls, resp, hist, loc>>
    /\ UNCHANGED <<configVars, client, phase, req>>

\* `channel = await self._client.get_entity(channel_id)`
FetchEntity(f) ==
    /\ pc = <<f, "entity">>
    /\ calls' = Append(calls, "get_entity")
    /\ \/ /\ connected
          /\ pc' = <<f, "request">>
          /\ UNCHANGED <<resp, hist, loc>>
       \/ Return(f, Raised)
    /\ UNCHANGED <<configVars, sessionVars, phase, req>>

\* `result = await self._client(functions...Request(...))` and the return
FetchRequest(f) ==
    /\ pc = <<f, "request">>
    /\ calls' = Append(calls, RequestOf(f))
    /\ \/ /\ connected
          /\ \E r \in CountResults[f] : Return(f, Returned(r))
       \/ Return(f, Raised)
    /\ UNCHANGED <<configVars, sessionVars, phase, req>>

Next ==
    \/ \E env \in StartupEnvs, ok \in BOOLEAN : Startup(env, ok)
    \/ Shutdown
    \/ ConnectionDrop
    \/ \E client_ip \in CallerIps, url \in RequestUrls : Arrive(client_ip, url)
    \/ Dispatch
    \/ ParseUrl
    \/ \E ok \in BOOLEAN : Connect(ok)
    \/ \E ok \in BOOLEAN : ResolveConnect(ok)
    \/ Resolve
    \/ GetMessages
    \/ GetEntity
    \/ \E f \in BestEffortFetches, ok \in BOOLEAN : FetchConnect(f, ok)
    \/ \E f \in BestEffortFetches : FetchEntity(f)
    \/ \E f \in BestEffortFetches : FetchRequest(f)

Spec == Init /\ [][Next]_vars

(***************************************************************************)
(* Claims about the service                                                *)
(***************************************************************************)
Done == pc = <<"done", "">> /\ resp # None
Status == resp[1].status
Body == resp[1].body
Succeeded == Done /\ Status = 200

\* the steps of parse_post that abort the request when they fail: the URL
\* parser, the connect before the try block, channel resolution, the message fetch
MandatorySteps == {"parse_post_url", "connect", "resolve", "get_messages"}
FailedAt(steps) == Done /\ hist.raised # None /\ hist.raised[1].step \in steps
RaisedError == hist.raised[1].error

\* the error kind of an exception of a mandatory step
ErrorKind(step, e) ==
    CASE step = "parse_post_url" -> "InvalidUrl"
      [] e.kind \in {"ValueError", "MsgIdInvalidError"} -> "PostNotFound"
      [] e.kind = "ChannelPrivateError" -> "ChannelPrivate"
      [] e.kind = "FloodWaitError" -> "RateLimited"
      [] e.kind = "UserIsBlockedError" -> "ChannelBlockedCaller"
      [] OTHER -> "Unknown"

\* the table of the HTTP facade: error kind -> <<status, error_code>>
ErrorTable(kind) ==
    CASE kind = "InvalidUrl" -> <<400, "INVALID_URL">>
      [] kind = "PostNotFound" -> <<404, "POST_NOT_FOUND">>
      [] kind = "ChannelPrivate" -> <<403, "CHANNEL_PRIVATE">>
      [] kind = "RateLimited" -> <<429, "TELEGRAM_RATE_LIMIT">>
      [] kind = "ChannelBlockedCaller" -> <<403, "CHANNEL_BLOCKED">>
      [] kind = "Unknown" -> <<500, "INTERNAL_ERROR">>

\* C1: a request whose mandatory steps fail is answered with the status and
\* error_code the table assigns to the error kind raised, whatever the channel
\* name and URL are; a flood-wait of N seconds has N in the message.
C1_ErrorTable ==
    FailedAt(MandatorySteps) =>
        LET kind == ErrorKind(hist.raised[1].step, RaisedError)
        IN  /\ <<Status, Body.error_code>> = ErrorTable(kind)
            /\ Body.success = FALSE
            /\ kind = "RateLimited" => Contains(IntToStr(RaisedError.seconds), Body.error)

\* C1, the case the code gets wrong with a channel name: the channel blocked
\* the caller
C1_BlockedIs403 ==
    FailedAt(MandatorySteps) /\ RaisedError.kind = "UserIsBlockedError" =>
        <<Status, Body.error_code>> = <<403, "CHANNEL_BLOCKED">>

\* the request in flight has passed the middleware (or was answered by it)
PastDispatch == pc \notin {<<"idle", "">>, <<"dispatch", "">>}

\* C2: when channel resolution and the message fetch succeed (and parse_post
\* reaches the three fetches: nothing else has raised), any combination of
\* failures of the comment-count, repost-count and subscriber-count fetches
\* still yields HTTP 200, in which a failed field is 0, 0 and null respectively
\* and a non-failed field carries the fetched value.
C2_BestEffortDefaults ==
    Done /\ hist.handler_ran /\ hist.raised = None =>
        /\ Status = 200
        /\ \A f \in BestEffortFetches :
              /\ hist.fetched[f] # None
              /\ LET out == hist.fetched[f][1]
                     default == IF f = "channel_subscribers" THEN None ELSE 0
                 IN  IF out.raised \/ out.result = None THEN Body[f] = default
                     ELSE IF f = "channel_subscribers"
                          THEN Body[f] = out.result[1].count
                          ELSE Body[f] = out.result[1].count[1]

\* a request answered 200 whose comment-count and subscriber-count fetches
\* failed and whose repost count was fetched
C2_Witness ==
    /\ Succeeded
    /\ hist.fetched.comments = Some(Raised)
    /\ hist.fetched.channel_subscribers = Some(Raised)
    /\ hist.fetched.reposts # None /\ ~hist.fetched.reposts[1].raised
    /\ hist.fetched.reposts[1].result # None
    /\ Body.comments = 0 /\ Body.channel_subscribers = None /\ Body.reposts = 1

\* C4: with an empty allowlist every request reaches the handler unchanged;
\* with a non-empty one a request reaches the handler only if the caller
\* address is an element of the allowlist, and every other request is answered
\* 403 FORBIDDEN without the handler running and without any connect or remote
\* call issued for it.
C4_AccessFilter ==
    PastDispatch =>
        IF allowed_ips = <<>> \/ req[1].client_ip \in Range(allowed_ips)
        THEN /\ hist.handler_ran
             /\ resp # Some(AccessDenied)
        ELSE /\ Done
             /\ Status = 403 /\ Body.error_code = "FORBIDDEN" /\ Body.success = FALSE
             /\ ~hist.handler_ran
             /\ calls = <<>>

\* a caller that is not on a non-empty allowlist was answered 403 FORBIDDEN
C4_Witness ==
    /\ Done
    /\ allowed_ips # <<>>
    /\ req[1].client_ip \notin Range(allowed_ips)
    /\ Status = 403 /\ Body.error_code = "FORBIDDEN"

\* the sum of the counts of a reactions mapping
RECURSIVE SumCounts(_)
SumCounts(r) ==
    IF r = {} THEN 0
    ELSE LET p == CHOOSE q \in r : TRUE IN p[2] + SumCounts(r \ {p})

\* C5: in every successful response total_reactions equals the sum of the
\* values of reactions, and has_reactions is true iff reactions is non-empty.
C5_ReactionTotals ==
    Succeeded =>
        /\ Body.total_reactions = SumCounts(Body.reactions)
        /\ Body.has_reactions <=> Body.reactions # {}

\* a successful response to a post that carries reactions
C5_Witness == Succeeded /\ loc.message[1].reactions # {}

\* C6: in every successful response reactions is the mapping embedded in the
\* fetched message, restricted to the labels whose count is strictly positive.
C6_ReactionsOfMessage ==
    Succeeded => Body.reactions = {p \in loc.message[1].reactions : p[2] > 0}

\* C7: a request whose URL the URL parser rejects never reaches the network:
\* from its arrival to its 400 response no connect and no remote call is issued
\* for it, whether or not the session is connected.
C7_InvalidUrlStaysLocal ==
    req # None /\ ~parse_post_url(req[1].url).ok =>
        /\ calls = <<>>
        /\ pc \in {<<"dispatch", "">>, <<"parse", "">>, <<"done", "">>}
        /\ Done /\ hist.handler_ran => Status = 400 /\ Body.error_code = "INVALID_URL"

\* a rejected URL was answered 400 while the session was not connected
C7_Witness ==
    /\ Done /\ hist.handler_ran
    /\ hist.raised # None /\ hist.raised[1].step = "parse_post_url"
    /\ Status = 400
    /\ ~connected

\* C9: an unclassified failure of a mandatory step is answered 500
\* INTERNAL_ERROR, and the error text returned does not contain the text of the
\* underlying exception.
C9_UnknownIsOpaque ==
    /\ FailedAt(MandatorySteps \ {"parse_post_url"})
    /\ RaisedError.kind \in {"Exception", "ConnectionError"}
    /\ RaisedError.text # <<>>
    => /\ Status = 500 /\ Body.error_code = "INTERNAL_ERROR"
       /\ ~Contains(RaisedError.text, Body.error)

\* C9, the opaque text alone, for an exception whose text holds none of the
\* words the handler looks for
C9_OpaqueText ==
    /\ FailedAt(MandatorySteps \ {"parse_post_url"})
    /\ RaisedError.kind \in {"Exception", "ConnectionError"}
    /\ RaisedError.text = TextLocked
    => ~Contains(RaisedError.text, Body.error)

\* C10: when channel resolution and the message fetch succeed and the later
\* fetch of the channel entity fails, the request is not aborted: it succeeds
\* with the metadata fields absent.
C10_EntityFetchBestEffort ==
    FailedAt({"get_entity"}) =>
        /\ Status = 200
        /\ Body.channel_name = None
        /\ Body.channel_thumbnail = None

(***************************************************************************)
(* C8, under SpecSession                                                   *)
(***************************************************************************)
SessionCalls == {"initialize", "connect", "disconnect"}

\* C8: after any sequence of initialize, connect and disconnect calls at most
\* one client has been constructed (a second initialize, even with other
\* credentials, leaves the first client in place); connect invokes the SDK's
\* connect only when the client exists and is not connected, disconnect the
\* SDK's disconnect only when the client exists and is connected; so a call
\* repeated right after it returned has no further effect.
C8_SessionIdempotent ==
    /\ Cardinality({i \in 1..Len(ops) : ops[i].sdk = Some("TelegramClient")}) <= 1
    /\ \A i \in 1..Len(ops) :
          /\ ops[i].op = "initialize" /\ ops[i].pre_client # None =>
                ops[i].sdk = None /\ ops[i].client = ops[i].pre_client
          /\ ops[i].sdk = Some("connect") =>
                ops[i].op = "connect" /\ ops[i].pre_client # None /\ ~ops[i].pre_connected
          /\ ops[i].sdk = Some("disconnect") =>
                ops[i].op = "disconnect" /\ ops[i].pre_client # None /\ ops[i].pre_connected
    /\ \A i \in 1..(Len(ops) - 1) :
          ops[i].op \in SessionCalls /\ ops[i + 1].op = ops[i].op /\ ops[i].ok =>
              /\ ops[i + 1].sdk = None
              /\ ops[i + 1].client = ops[i].client
              /\ ops[i + 1].connected = ops[i].connected

\* initialize twice with different credentials, then connect twice, the first
\* connect having established the session
C8_Witness ==
    /\ Len(ops) >= 4
    /\ ops[1].op = "initialize" /\ ops[2].op = "initialize" /\ ops[1].arg # ops[2].arg
    /\ ops[3].op = "connect" /\ ops[3].sdk = Some("connect") /\ ops[3].ok
    /\ ops[4].op = "connect"

(***************************************************************************)
(* Requests in flight together on the one shared session                   *)
(*                                                                         *)
(* Every request handler is a coroutine of one event loop and calls        *)
(* parse_post of the one module-level telegram_parser.  A coroutine runs   *)
(* until it awaits a call of the SDK; the loop may then resume any other   *)
(* request.  parse_post acquires no lock.  Here pc, req, loc and resp hold *)
(* one entry per request, and calls is the log of the session: the SDK     *)
(* calls in the order they were issued, each with the request it belongs   *)
(* to.  The session is connected throughout, so every `await               *)
(* self.connect()` returns without suspending.  resp keeps the status code *)
(* of the response.                                                        *)
(***************************************************************************)
NumRequests == 2
Requests == 1..NumRequests
\* the length up to which the log of the session is followed
MaxCalls == 10
\* what the requests in flight ask for: a post, and a text that is no post URL
ConcurrentUrls == {UrlNews, UrlNotAUrl}
ConcurrentIps == {Ip1}

\* the client the lifespan has initialized before the first request is served
StartedClient == Some(TelegramClient(DefaultSessionPath, ApiId, ApiHash))

\* the awaits of parse_post that reach the SDK while the session is connected
AwaitPoints ==
    {<<"resolve", "entity">>, <<"get_messages", "">>, <<"get_entity", "">>}
    \cup {<<f, s>> : f \in BestEffortFetches, s \in {"entity", "request"}}

\* the SDK call awaited at p
CallAt(p) ==
    IF p[2] = "request" THEN RequestOf(p[1])
    ELSE IF p = <<"get_messages", "">> THEN "get_messages"
    ELSE "get_entity"

\* the awaits of the try block of parse_post itself: an exception there ends
\* the request; an exception in one of the three helpers is swallowed by it
InTryBlock(p) == p \in {<<"resolve", "entity">>, <<"get_messages", "">>, <<"get_entity", "">>}

\* what the call at p may raise; None stands for a call that returned what the
\* code goes on with.  An empty message list raises the ValueError of line 184.
CallOutcomes(p, url) ==
    {None} \cup {Some(e) : e \in RemoteErrors}
    \cup (IF p = <<"get_messages", "">>
          THEN {Some(Error("ValueError", 0, MsgPostNotFound \o url))}
          ELSE {})

\* where parse_post stands once the call at p has returned or raised
AfterCall(p, out) ==
    CASE p = <<"resolve", "entity">> ->
            IF out = None THEN <<"get_messages", "">> ELSE <<"done", "">>
      [] p = <<"get_messages", "">> ->
            IF out = None THEN <<"get_entity", "">> ELSE <<"done", "">>
      [] p = <<"get_entity", "">> ->
            IF out = None THEN <<"comments", "entity">> ELSE <<"done", "">>
      [] p[1] = "comments" ->
            IF out = None /\ p[2] = "entity"
            THEN <<"comments", "request">> ELSE <<"reposts", "entity">>
      [] p[1] = "reposts" ->
            IF out = None /\ p[2] = "entity"
            THEN <<"reposts", "request">> ELSE <<"channel_subscribers", "entity">>
      [] p[1] = "channel_subscribers" ->
            IF out = None /\ p[2] = "entity"
            THEN <<"channel_subscribers", "request">> ELSE <<"done", "">>

\* the status of the response once parse_post has ended after the call at p
StatusAfter(p, out, channel) ==
    IF InTryBlock(p) THEN OnValueError(ParsePostError(out[1], channel)).status ELSE 200

InitConcurrent ==
    /\ allowed_ips = <<>>
    /\ client = StartedClient
    /\ connected = TRUE
    /\ ops = <<>>
    /\ url_in = <<>>
    /\ url_out = None
    /\ phase = "up"
    /\ pc = [r \in Requests |-> <<"idle", "">>]
    /\ req = [r \in Requests |-> None]
    /\ loc = [r \in Requests |-> LocInit]
    /\ resp = [r \in Requests |-> None]
    /\ calls = <<>>
    /\ hist = None

\* request r arrives and its handler runs up to the first await of the SDK:
\* no middleware was added, parse_post parses the URL, and the `await
\* self.connect()` of lines 173 and 52 find the session connected
ArriveConcurrent(r, client_ip, url) ==
    /\ phase = "up"
    /\ ~MiddlewareAdded(allowed_ips)
    /\ ~ConnectInvokes(client, connected)
    /\ pc[r] = <<"idle", "">>
    /\ req' = [req EXCEPT ![r] = Some([client_ip |-> client_ip, url |-> url])]
    /\ LET parsed == parse_post_url(url)
       IN  IF parsed.ok
           THEN /\ loc' = [loc EXCEPT ![r].channel = parsed.channel,
                                      ![r].message_id = parsed.message_id]
                /\ pc' = [pc EXCEPT ![r] = <<"resolve", "entity">>]
                /\ resp' = resp
           ELSE /\ pc' = [pc EXCEPT ![r] = <<"done", "">>]
                /\ resp' = [resp EXCEPT ![r] = Some(OnValueError(parsed.error).status)]
                /\ loc' = loc
    /\ UNCHANGED <<configVars, sessionVars, phase, calls, hist>>

\* request r is resumed: the SDK call it awaits is issued on the session and
\* returns or raises, and r runs on to its next await or to its response
CallConcurrent(r, out) ==
    /\ pc[r] \in AwaitPoints
    /\ Len(calls) < MaxCalls
    /\ ~ConnectInvokes(client, connected)
    /\ out \in CallOutcomes(pc[r], req[r][1].url)
    /\ calls' = Append(calls, [request |-> r, call |-> CallAt(pc[r])])
    /\ pc' = [pc EXCEPT ![r] = AfterCall(pc[r], out)]
    /\ resp' = IF AfterCall(pc[r], out) = <<"done", "">>
               THEN [resp EXCEPT ![r] = Some(StatusAfter(pc[r], out, loc[r].channel))]
               ELSE resp
    /\ UNCHANGED <<configVars, sessionVars, phase, req, loc, hist>>

ConcurrentOutcomes ==
    UNION {CallOutcomes(p, url) : p \in AwaitPoints, url \in ConcurrentUrls}

NextConcurrent ==
    \/ \E r \in Requests, client_ip \in ConcurrentIps, url \in ConcurrentUrls :
          ArriveConcurrent(r, client_ip, url)
    \/ \E r \in Requests, out \in ConcurrentOutcomes : CallConcurrent(r, out)

SpecConcurrent == InitConcurrent /\ [][NextConcurrent]_vars

(***************************************************************************)
(* Claims about requests in flight together                                *)
(***************************************************************************)
\* C11: the SDK calls of one request are contiguous in the log of the shared
\* session: between two calls of a request no call of another request was
\* issued.
C11_CallsSerialized ==
    \A i, j, k \in 1..Len(calls) :
        i < j /\ j < k /\ calls[i].request = calls[k].request =>
            calls[j].request = calls[i].request

====
